---------------------------- MODULE Spec2Model ----------------------------
(***************************************************************************)
(* Model of sinkhorn_loss (generative_models_w_Sinkhorn_div.ipynb, lines   *)
(* 194-209): the entropic optimal-transport cost of two point sets,        *)
(* computed by L rounds of Sinkhorn scaling on the kernel exp(-c/epsilon). *)
(*                                                                         *)
(* The notebook feeds the routine "float" placeholders, i.e. IEEE-754      *)
(* single precision.  Numbers are therefore modelled as single-precision   *)
(* values with round-to-nearest-even, gradual underflow and overflow to    *)
(* infinity, not as reals: a value is <<m, e>> and stands for m * 2^e.     *)
(* Every number the routine handles is non-negative, so no sign is kept;    *)
(* the training objective, which subtracts, pairs a value with a sign.     *)
(***************************************************************************)
EXTENDS Integers, Sequences, FiniteSets, TLC

---------------------------------------------------------------------------
(* Single-precision numbers.                                               *)

\* Width of the significand of a "float" (tf.float32), hidden bit included.
MantBits == 24
\* Exponent of the last place of the smallest subnormal, 2^-149.
EMin == -149
\* Exponent of the last place of the largest finite numbers, (2^24-1)*2^104.
EMax == 104
\* Exponent tag of the two non-finite values.
ENonFinite == 128

Pow2(k) == 2^k

MantMin == Pow2(MantBits - 1)
MantMax == Pow2(MantBits)

Zero == <<0, EMin>>
One == <<MantMin, 1 - MantBits>>
Inf == <<1, ENonFinite>>
NaN == <<2, ENonFinite>>

IsZero(x) == x[1] = 0
IsFinite(x) == x[2] < ENonFinite
IsNaN(x) == x = NaN

\* The canonical single-precision values: zero, subnormals, normals, Inf, NaN.
IsFloat(x) ==
    \/ x \in {Inf, NaN}
    \/ /\ x[2] \in EMin..EMax
       /\ x[1] \in 0..(MantMax - 1)
       /\ (x[1] < MantMin => x[2] = EMin)

\* Number of bits of n, 0 <= n < 2^31.
BitLen4(n) == <<0, 1, 2, 2, 3, 3, 3, 3, 4, 4, 4, 4, 4, 4, 4, 4>>[n + 1]
BitLen8(n) == IF n >= 16 THEN 4 + BitLen4(n \div 16) ELSE BitLen4(n)
BitLen16(n) == IF n >= 256 THEN 8 + BitLen8(n \div 256) ELSE BitLen8(n)
BitLen(n) == IF n >= 65536 THEN 16 + BitLen16(n \div 65536) ELSE BitLen16(n)

\* Round-to-nearest-even of the exact value (n + s) * 2^e, 0 <= n < 2^31, where
\* 0 <= s < 1 and sticky tells whether s > 0.  A sticky value has at least
\* MantBits + 2 significant bits in n.
Round(n, e, sticky) ==
    LET drop == BitLen(n) - MantBits
        sh == IF drop > EMin - e THEN drop ELSE EMin - e
    IN  IF n = 0 THEN Zero
        ELSE IF sh <= 0 THEN <<n * Pow2(0 - sh), e + sh>>
        ELSE IF sh > 30 THEN Zero
        ELSE LET q == n \div Pow2(sh)
                 r == n % Pow2(sh)
                 half == Pow2(sh - 1)
                 up == \/ r > half
                       \/ r = half /\ sticky
                       \/ r = half /\ ~sticky /\ q % 2 = 1
                 m == IF up THEN q + 1 ELSE q
             IN  IF m = 0 THEN Zero
                 ELSE IF m = MantMax
                      THEN (IF e + sh + 1 > EMax THEN Inf ELSE <<MantMin, e + sh + 1>>)
                      ELSE (IF e + sh > EMax THEN Inf ELSE <<m, e + sh>>)

\* A small non-negative integer as a float (exact below 2^24).
IntToFloat(n) == Round(n, 0, FALSE)

\* A finite non-zero x with its significand shifted up to MantBits bits.
Normal(x) ==
    LET k == MantBits - BitLen(x[1]) IN <<x[1] * Pow2(k), x[2] - k>>

\* x + y.
FAdd(x, y) ==
    IF IsNaN(x) \/ IsNaN(y) THEN NaN
    ELSE IF ~IsFinite(x) \/ ~IsFinite(y) THEN Inf
    ELSE IF IsZero(x) THEN y
    ELSE IF IsZero(y) THEN x
    ELSE LET hi == IF x[2] >= y[2] THEN x ELSE y
             lo == IF x[2] >= y[2] THEN y ELSE x
             d == hi[2] - lo[2]
         IN  IF d <= 3 THEN Round(hi[1] * Pow2(d) + lo[1], lo[2], FALSE)
             ELSE IF d - 3 > MantBits THEN Round(hi[1] * 8, hi[2] - 3, TRUE)
             ELSE Round(hi[1] * 8 + lo[1] \div Pow2(d - 3), hi[2] - 3,
                        lo[1] % Pow2(d - 3) # 0)

\* x * y: the 48-bit product of the significands, cut to its upper 30 bits
\* and a sticky bit, then rounded.
FMul(x, y) ==
    IF IsNaN(x) \/ IsNaN(y) THEN NaN
    ELSE IF ~IsFinite(x) \/ ~IsFinite(y)
         THEN (IF IsZero(x) \/ IsZero(y) THEN NaN ELSE Inf)
    ELSE IF IsZero(x) \/ IsZero(y) THEN Zero
    ELSE LET nx == Normal(x)
             ny == Normal(y)
             ah == nx[1] \div 4096
             al == nx[1] % 4096
             bh == ny[1] \div 4096
             bl == ny[1] % 4096
             t1 == ah * bl + al * bh + (al * bl) \div 4096
             low == (al * bl) % 4096
         IN  Round(ah * bh * 64 + t1 \div 64, nx[2] + ny[2] + 18,
                   t1 % 64 # 0 \/ low # 0)

\* x / y: 29 quotient bits by long division, seven bits a step, and a sticky
\* bit for a non-zero remainder, then rounded.
FDiv(x, y) ==
    IF IsNaN(x) \/ IsNaN(y) THEN NaN
    ELSE IF ~IsFinite(x) THEN (IF IsFinite(y) THEN Inf ELSE NaN)
    ELSE IF ~IsFinite(y) THEN Zero
    ELSE IF IsZero(y) THEN (IF IsZero(x) THEN NaN ELSE Inf)
    ELSE IF IsZero(x) THEN Zero
    ELSE LET nx == Normal(x)
             ny == Normal(y)
             q0 == nx[1] \div ny[1]
             r0 == nx[1] % ny[1]
             q1 == (r0 * 128) \div ny[1]
             r1 == (r0 * 128) % ny[1]
             q2 == (r1 * 128) \div ny[1]
             r2 == (r1 * 128) % ny[1]
             q3 == (r2 * 128) \div ny[1]
             r3 == (r2 * 128) % ny[1]
             q4 == (r3 * 128) \div ny[1]
             r4 == (r3 * 128) % ny[1]
         IN  Round((((q0 * 128 + q1) * 128 + q2) * 128 + q3) * 128 + q4,
                   nx[2] - ny[2] - 28, r4 # 0)

\* x - y for finite x >= y >= 0.
FSubMag(x, y) ==
    IF IsZero(y) THEN x
    ELSE LET d == x[2] - y[2]
         IN  IF d <= 3 THEN Round(x[1] * Pow2(d) - y[1], y[2], FALSE)
             ELSE IF d - 3 > MantBits THEN Round(x[1] * 8 - 1, x[2] - 3, TRUE)
             ELSE IF y[1] % Pow2(d - 3) = 0
                  THEN Round(x[1] * 8 - y[1] \div Pow2(d - 3), x[2] - 3, FALSE)
                  ELSE Round(x[1] * 8 - y[1] \div Pow2(d - 3) - 1, x[2] - 3, TRUE)

\* x <= y for two floats that are not NaN.
FLeq(x, y) == x[2] < y[2] \/ (x[2] = y[2] /\ x[1] <= y[1])

\* A signed number is <<s, x>>: s is 1 or -1 and x the magnitude.
Plus(x) == <<1, x>>
Minus(x) == <<-1, x>>

\* p + q.
SAdd(p, q) ==
    IF IsNaN(p[2]) \/ IsNaN(q[2]) THEN Plus(NaN)
    ELSE IF p[1] = q[1] THEN <<p[1], FAdd(p[2], q[2])>>
    ELSE IF ~IsFinite(p[2]) /\ ~IsFinite(q[2]) THEN Plus(NaN)
    ELSE IF ~IsFinite(p[2]) THEN p
    ELSE IF ~IsFinite(q[2]) THEN q
    ELSE IF p[2] = q[2] THEN Plus(Zero)
    ELSE IF FLeq(q[2], p[2]) THEN <<p[1], FSubMag(p[2], q[2])>>
    ELSE <<q[1], FSubMag(q[2], p[2])>>

\* p - q.
SSub(p, q) == SAdd(p, <<0 - q[1], q[2]>>)


---------------------------------------------------------------------------
(* The tensor operations sinkhorn_loss uses.  A matrix is a sequence of    *)
(* rows; a column vector is a matrix with one column.                      *)

Rows(M) == Len(M)
Cols(M) == Len(M[1])

\* What a matrix product of mismatched shapes evaluates to: the framework
\* raises InvalidArgumentError and the call is abandoned.
ShapeError == <<>>

IsError(M) == M = ShapeError

\* tf.ones((n, 1))
Ones(n) == [i \in 1..n |-> <<One>>]

\* tf.transpose
Transpose(M) == [j \in 1..Cols(M) |-> [i \in 1..Rows(M) |-> M[i][j]]]

\* One entry of a matrix product: the products summed in index order.
RECURSIVE Dot(_, _, _, _, _)
Dot(A, B, i, j, k) ==
    IF k = 1 THEN FMul(A[i][1], B[1][j])
    ELSE FAdd(Dot(A, B, i, j, k - 1), FMul(A[i][k], B[k][j]))

\* tf.matmul
MatMul(A, B) ==
    IF IsError(A) \/ IsError(B) THEN ShapeError
    ELSE IF Cols(A) # Rows(B) THEN ShapeError
    ELSE [i \in 1..Rows(A) |-> [j \in 1..Cols(B) |-> Dot(A, B, i, j, Cols(A))]]

\* tf.mul: the elementwise product of two matrices of one shape.
Mul(A, B) == [i \in 1..Rows(A) |-> [j \in 1..Cols(A) |-> FMul(A[i][j], B[i][j])]]

\* Mutant of Delta: the literal 1e-3 as a float.
DeltaCoarse == <<8589935, -33>>

\* The literal 1e-12 as a float.
Delta == <<9223372, -63>>

\* Mutant of RecipPlusDelta: the floor left out, 1./M.
RecipWithoutFloor(M) ==
    IF IsError(M) THEN ShapeError
    ELSE [i \in 1..Rows(M) |-> [j \in 1..Cols(M) |-> FDiv(One, M[i][j])]]

\* Mutant of RecipPlusDelta: the floor added after the inversion, 1./M + 1e-12.
RecipThenFloor(M) ==
    IF IsError(M) THEN ShapeError
    ELSE [i \in 1..Rows(M) |-> [j \in 1..Cols(M) |-> FAdd(FDiv(One, M[i][j]), Delta)]]

\* 1./(M + 1e-12), elementwise.
RecipPlusDelta(M) ==
    IF IsError(M) THEN ShapeError
    ELSE [i \in 1..Rows(M) |-> [j \in 1..Cols(M) |-> FDiv(One, FAdd(M[i][j], Delta))]]

\* The floats exp(-x) for x = 0, 1, ..., 103; exp(-x) rounds to zero from
\* x = 104 on.
ExpNegTable ==
   << <<8388608, -23>>, <<12343986, -25>>, <<9082197, -26>>, <<13364614, -28>>,
      <<9833134, -29>>, <<14469631, -31>>, <<10646160, -32>>, <<15666013, -34>>,
      <<11526408, -35>>, <<8480657, -36>>, <<12479438, -38>>, <<9181857, -39>>,
      <<13511266, -41>>, <<9941034, -42>>, <<14628408, -44>>, <<10762981, -45>>,
      <<15837918, -47>>, <<11652889, -48>>, <<8573716, -49>>, <<12616376, -51>>,
      <<9282611, -52>>, <<13659527, -54>>, <<10050118, -55>>, <<14788927, -57>>,
      <<10881084, -58>>, <<16011709, -60>>, <<11780757, -61>>, <<8667797, -62>>,
      <<12754817, -64>>, <<9384470, -65>>, <<13809414, -67>>, <<10160399, -68>>,
      <<14951208, -70>>, <<11000484, -71>>, <<16187407, -73>>, <<11910029, -74>>,
      <<8762909, -75>>, <<12894777, -77>>, <<9487447, -78>>, <<13960946, -80>>,
      <<10271890, -81>>, <<15115269, -83>>, <<11121193, -84>>, <<16365034, -86>>,
      <<12040719, -87>>, <<8859066, -88>>, <<13036273, -90>>, <<9591554, -91>>,
      <<14114141, -93>>, <<10384605, -94>>, <<15281131, -96>>, <<11243228, -97>>,
      <<16544609, -99>>, <<12172843, -100>>, <<8956277, -101>>, <<13179321, -103>>,
      <<9696803, -104>>, <<14269018, -106>>, <<10498556, -107>>, <<15448812, -109>>,
      <<11366601, -110>>, <<16726155, -112>>, <<12306417, -113>>, <<9054556, -114>>,
      <<13323940, -116>>, <<9803207, -117>>, <<14425593, -119>>, <<10613758, -120>>,
      <<15618334, -122>>, <<11491328, -123>>, <<8454847, -124>>, <<12441457, -126>>,
      <<9153912, -127>>, <<13470145, -129>>, <<9910779, -130>>, <<14583887, -132>>,
      <<10730224, -133>>, <<15789716, -135>>, <<11617424, -136>>, <<8547623, -137>>,
      <<12577978, -139>>, <<9254359, -140>>, <<13617954, -142>>, <<10019531, -143>>,
      <<14743917, -145>>, <<10847968, -146>>, <<15962978, -148>>, <<11744903, -149>>,
      <<4320708, -149>>, <<1589500, -149>>, <<584744, -149>>, <<215115, -149>>,
      <<79137, -149>>, <<29113, -149>>, <<10710, -149>>, <<3940, -149>>,
      <<1449, -149>>, <<533, -149>>, <<196, -149>>, <<72, -149>>,
      <<27, -149>>, <<10, -149>>, <<4, -149>>, <<1, -149>> >>

\* The integer a float with an integral value below 2^30 stands for.
FloatToInt(x) ==
    IF x[2] >= 0 THEN x[1] * Pow2(x[2]) ELSE x[1] \div Pow2(0 - x[2])

\* tf.exp(-x) for a float x >= 0 with an integral value.
FExpNeg(x) ==
    IF IsZero(x) THEN One
    ELSE IF BitLen(x[1]) + x[2] > 7 THEN Zero
    ELSE IF FloatToInt(x) >= Len(ExpNegTable) THEN Zero
    ELSE ExpNegTable[FloatToInt(x) + 1]

\* Squared Euclidean distance of two points with small integer coordinates,
\* which floats represent exactly.
RECURSIVE SqDist(_, _, _)
SqDist(p, q, k) ==
    IF k = 0 THEN 0
    ELSE SqDist(p, q, k - 1) + (p[k] - q[k]) * (p[k] - q[k])

\* c = tf.reduce_sum((expand_dims(X, 1) - expand_dims(Y, 0))**2, -1)
PairwiseCost(X_, Y_) ==
    [i \in 1..Len(X_) |-> [j \in 1..Len(Y_) |->
        IntToFloat(SqDist(X_[i], Y_[j], Len(X_[i])))]]

\* Mutant of Kernel: the cost not divided by epsilon, exp(-c).
KernelWithoutEpsilon(c_, eps) ==
    [i \in 1..Rows(c_) |-> [j \in 1..Cols(c_) |-> FExpNeg(c_[i][j])]]

\* K = tf.exp(-c/epsilon)
Kernel(c_, eps) ==
    [i \in 1..Rows(c_) |-> [j \in 1..Cols(c_) |-> FExpNeg(FDiv(c_[i][j], eps))]]

\* a = 1./(tf.matmul(K, b) + 1e-12)
NextA(K_, b_) == RecipPlusDelta(MatMul(K_, b_))

\* Mutant of NextB: b computed from the initial a, not from the a just computed.
NextBFromStaleA(K_, a_) == RecipPlusDelta(MatMul(Transpose(K_), Ones(Rows(K_))))

\* b = 1./(tf.matmul(tf.transpose(K), a) + 1e-12)
NextB(K_, a_) == RecipPlusDelta(MatMul(Transpose(K_), a_))

\* Mutant of Contract: the kernel contracted without the cost.
ContractWithoutCost(K_, c_, a_, b_) ==
    LET t == MatMul(K_, b_)
    IN  IF IsError(t) THEN ShapeError ELSE MatMul(Transpose(t), a_)

\* tf.matmul(tf.transpose(tf.matmul(tf.mul(K, c), b)), a)
Contract(K_, c_, a_, b_) ==
    LET t == MatMul(Mul(K_, c_), b_)
    IN  IF IsError(t) THEN ShapeError ELSE MatMul(Transpose(t), a_)

\* The loop of lines 205-207 as a function: the vectors after n rounds.
\* A tensor once it is computed: the same rows and entries, written out.
RECURSIVE StoredRow(_, _)
StoredRow(row, k) ==
    IF k = 0 THEN <<>> ELSE Append(StoredRow(row, k - 1), row[k])

RECURSIVE StoredRows(_, _)
StoredRows(M, r) ==
    IF r = 0 THEN <<>>
    ELSE Append(StoredRows(M, r - 1), StoredRow(M[r], Len(M[r])))

Stored(M) == IF IsError(M) THEN ShapeError ELSE StoredRows(M, Len(M))

\* One round from the b of the round before: line 206, then line 207 on the
\* a it gives.
RoundFrom(K_, b_) ==
    CHOOSE ab \in {<<newA, Stored(NextB(K_, newA))>> :
                      newA \in {Stored(NextA(K_, b_))}} : TRUE

RECURSIVE Rounds(_, _, _, _)
Rounds(K_, a_, b_, n) ==
    IF n = 0 THEN <<a_, b_>>
    ELSE CHOOSE ab \in {RoundFrom(K_, prev[2]) :
                           prev \in {Rounds(K_, a_, b_, n - 1)}} : TRUE

\* Lines 201-209 on the cost matrix of lines 196-200.
LossFromCost(cost, eps, n, L_) ==
    CHOOSE r \in {Stored(Contract(kc[1], cost, kc[2][1], kc[2][2])) :
                     kc \in {<<kern, Rounds(kern, Ones(n), Ones(n), L_)>> :
                                kern \in {Stored(Kernel(cost, eps))}}} : TRUE

\* sinkhorn_loss(X, Y, epsilon, L) as a function of its arguments alone: the
\* value one call returns when nothing else runs, ShapeError when it raises.
SinkhornLoss(X_, Y_, eps, L_) ==
    CHOOSE r \in {LossFromCost(cost, eps, Len(Y_), L_) :
                     cost \in {Stored(PairwiseCost(X_, Y_))}} : TRUE

\* The default of L in def sinkhorn_loss(X, Y, epsilon=.5, L=10).
DefaultL == 10

\* Mutant of Objective: the cross term not doubled.
ObjectiveWithoutDoubling(sXG, sXX, sGG) ==
    SSub(SSub(Plus(sXG[1][1]), Plus(sXX[1][1])), Plus(sGG[1][1]))

\* tf.reduce_sum(2.*sXG - sXX - sGG) for three 1 x 1 results.
Objective(sXG, sXX, sGG) ==
    SSub(SSub(Plus(FMul(IntToFloat(2), sXG[1][1])), Plus(sXX[1][1])),
         Plus(sGG[1][1]))

---------------------------------------------------------------------------
(* The inputs the model draws from.                                        *)

\* Largest number of points in a point set.
MaxPts == 2
\* Largest iteration budget L.
MaxL == 2

\* Points of the plane: two near ones and a far one.
Points == {<<0, 0>>, <<1, 0>>, <<10, 0>>}
PointSets == UNION {[1..k -> Points] : k \in 1..MaxPts}
\* epsilon: the default 0.5, and 1.0.
Half == <<MantMin, 0 - MantBits>>
Epsilons == {Half, One}

---------------------------------------------------------------------------
(* State: one frame per call of sinkhorn_loss in progress.                 *)

VARIABLES
    X, Y, epsilon, L,    \* the arguments of each call
    pc,                  \* where each call stands
    l,                   \* rounds each call has completed
    c, K,                \* cost matrix and kernel of each call
    a, b,                \* scaling vectors of each call
    result,              \* what each call returned
    loss,                \* the training objective, once evaluated
    N, batch_size,       \* rows of training data, rows per batch
    epoch_idx, idx,      \* counters of the 2-D training loop
    batch_idx,           \* counter of the discriminator's batch loop
    at,                  \* where the training cell stands
    fed,                 \* the row indices each session.run of a pass was fed
    plots,               \* the epochs plot_densities ran in
    train_X, train_Y,    \* the discriminator's data rows and labels
    shuf_a, shuf_b,      \* arguments a, b of shuffle_in_unison_inplace
    perm,                \* its permutation p
    shuf_pc,             \* where the call stands
    shuffled             \* what it returned

\* The locals of shuffle_in_unison_inplace.
shufVars == <<shuf_a, shuf_b, perm, shuf_pc, shuffled>>

\* The state of the training cells.
trainVars == <<N, batch_size, epoch_idx, idx, batch_idx, at, fed, plots,
               train_X, train_Y>>

\* The state outside sinkhorn_loss, which no statement of it touches.
outside == <<loss, trainVars, shufVars>>

\* The frames of sinkhorn_loss.
frames == <<X, Y, epsilon, L, pc, l, c, K, a, b, result>>

vars == <<X, Y, epsilon, L, pc, l, c, K, a, b, result, outside>>

Calls == DOMAIN pc

\* No training cell is running.
TrainIdle ==
    /\ N = 0 /\ batch_size = 0 /\ epoch_idx = 0 /\ idx = 0 /\ batch_idx = 0
    /\ at = "idle" /\ fed = <<>> /\ plots = {}
    /\ train_X = <<>> /\ train_Y = <<>>

\* shuffle_in_unison_inplace is not being called.
ShuffleIdle ==
    /\ shuf_a = <<>> /\ shuf_b = <<>> /\ perm = <<>>
    /\ shuf_pc = "idle" /\ shuffled = <<>>

\* No call of sinkhorn_loss is in progress and no objective is evaluated.
NoCalls ==
    /\ X = <<>> /\ Y = <<>> /\ epsilon = <<>> /\ L = <<>>
    /\ pc = <<>> /\ l = <<>> /\ c = <<>> /\ K = <<>>
    /\ a = <<>> /\ b = <<>> /\ result = <<>>
    /\ loss = <<>>

\* A local not assigned yet.
Unset == <<>>

\* One call, about to start, with any arguments.
Init ==
    \E x \in PointSets, y \in PointSets, e \in Epsilons, n \in 0..MaxL :
        /\ X = [i \in {1} |-> x]
        /\ Y = [i \in {1} |-> y]
        /\ epsilon = [i \in {1} |-> e]
        /\ L = [i \in {1} |-> n]
        /\ pc = [i \in {1} |-> "entry"]
        /\ l = [i \in {1} |-> 0]
        /\ c = [i \in {1} |-> Unset]
        /\ K = [i \in {1} |-> Unset]
        /\ a = [i \in {1} |-> Unset]
        /\ b = [i \in {1} |-> Unset]
        /\ result = [i \in {1} |-> Unset]
        /\ loss = Unset
        /\ TrainIdle /\ ShuffleIdle

\* Mutant of Setup: b starts from the vector an earlier call left behind,
\* when there is one of the right length.
SetupReusingVectors(i) ==
    /\ pc[i] = "entry"
    /\ LET cost == PairwiseCost(X[i], Y[i])
       IN  /\ c' = [c EXCEPT ![i] = cost]
           /\ K' = [K EXCEPT ![i] = Kernel(cost, epsilon[i])]
    /\ a' = [a EXCEPT ![i] = Ones(Len(Y[i]))]
    /\ LET left == {j \in Calls : pc[j] # "entry" /\ Len(b[j]) = Len(Y[i])}
       IN  b' = [b EXCEPT ![i] = IF left = {} THEN Ones(Len(Y[i]))
                                 ELSE b[CHOOSE j \in left : TRUE]]
    /\ pc' = [pc EXCEPT ![i] = "loop"]
    /\ UNCHANGED <<X, Y, epsilon, L, l, result, outside>>

\* Mutant of Setup: a sized by the rows of X.
SetupSizedByX(i) ==
    /\ pc[i] = "entry"
    /\ LET cost == PairwiseCost(X[i], Y[i])
       IN  /\ c' = [c EXCEPT ![i] = cost]
           /\ K' = [K EXCEPT ![i] = Kernel(cost, epsilon[i])]
    /\ a' = [a EXCEPT ![i] = Ones(Len(X[i]))]
    /\ b' = [b EXCEPT ![i] = Ones(Len(Y[i]))]
    /\ pc' = [pc EXCEPT ![i] = "loop"]
    /\ UNCHANGED <<X, Y, epsilon, L, l, result, outside>>

\* Two calls, about to start, each with its own arguments; their statements
\* interleave in any order, one call after the other included.
PairPointSets == {<<<<0, 0>>>>, <<<<0, 0>>, <<1, 0>>>>, <<<<1, 0>>, <<10, 0>>>>}
PairBudgets == {0, 2}

PairInit ==
    \E x \in [{1, 2} -> PairPointSets], y \in [{1, 2} -> PairPointSets],
       n \in [{1, 2} -> PairBudgets] :
        /\ X = x
        /\ Y = y
        /\ epsilon = [i \in {1, 2} |-> Half]
        /\ L = n
        /\ pc = [i \in {1, 2} |-> "entry"]
        /\ l = [i \in {1, 2} |-> 0]
        /\ c = [i \in {1, 2} |-> Unset]
        /\ K = [i \in {1, 2} |-> Unset]
        /\ a = [i \in {1, 2} |-> Unset]
        /\ b = [i \in {1, 2} |-> Unset]
        /\ result = [i \in {1, 2} |-> Unset]
        /\ loss = Unset
        /\ TrainIdle /\ ShuffleIdle

\* Lines 196-204: the cost matrix, the kernel and the two vectors of ones,
\* both sized by the number of rows of Y.
Setup(i) ==
    /\ pc[i] = "entry"
    /\ LET cost == PairwiseCost(X[i], Y[i])
       IN  /\ c' = [c EXCEPT ![i] = cost]
           /\ K' = [K EXCEPT ![i] = Kernel(cost, epsilon[i])]
    /\ a' = [a EXCEPT ![i] = Ones(Len(Y[i]))]
    /\ b' = [b EXCEPT ![i] = Ones(Len(Y[i]))]
    /\ pc' = [pc EXCEPT ![i] = "loop"]
    /\ UNCHANGED <<X, Y, epsilon, L, l, result, outside>>

\* Lines 196-204 with line 203 left open: a starts as any of these values,
\* the ones of the code, ones of the other length, or values that are not
\* ones and fit neither length.
InitialAs(i) ==
    {Ones(Len(Y[i])), Ones(Len(X[i])), <<<<Zero>>, <<Inf>>, <<NaN>>, <<Delta>>>>}

SetupAnyA(i) ==
    /\ pc[i] = "entry"
    /\ LET cost == PairwiseCost(X[i], Y[i])
       IN  /\ c' = [c EXCEPT ![i] = cost]
           /\ K' = [K EXCEPT ![i] = Kernel(cost, epsilon[i])]
    /\ \E a0 \in InitialAs(i) : a' = [a EXCEPT ![i] = a0]
    /\ b' = [b EXCEPT ![i] = Ones(Len(Y[i]))]
    /\ pc' = [pc EXCEPT ![i] = "loop"]
    /\ UNCHANGED <<X, Y, epsilon, L, l, result, outside>>

\* Mutant of UpdateA: the first round keeps the a it finds.
UpdateAFromSecondRound(i) ==
    /\ pc[i] = "loop"
    /\ l[i] < L[i]
    /\ LET new == IF l[i] = 0 THEN a[i] ELSE NextA(K[i], b[i])
       IN  IF IsError(new)
           THEN pc' = [pc EXCEPT ![i] = "error"] /\ a' = a
           ELSE pc' = [pc EXCEPT ![i] = "update_b"] /\ a' = [a EXCEPT ![i] = new]
    /\ UNCHANGED <<X, Y, epsilon, L, l, c, K, b, result, outside>>

\* Line 206, entered while range(L) still yields a round.
UpdateA(i) ==
    /\ pc[i] = "loop"
    /\ l[i] < L[i]
    /\ LET new == NextA(K[i], b[i])
       IN  IF IsError(new)
           THEN pc' = [pc EXCEPT ![i] = "error"] /\ a' = a
           ELSE pc' = [pc EXCEPT ![i] = "update_b"] /\ a' = [a EXCEPT ![i] = new]
    /\ UNCHANGED <<X, Y, epsilon, L, l, c, K, b, result, outside>>

\* Mutant of UpdateB: the new b is written to one buffer that every call with
\* a b of that length shares.
UpdateBSharedBuffer(i) ==
    /\ pc[i] = "update_b"
    /\ LET new == NextB(K[i], a[i])
       IN  IF IsError(new)
           THEN pc' = [pc EXCEPT ![i] = "error"] /\ b' = b /\ l' = l
           ELSE /\ pc' = [pc EXCEPT ![i] = "loop"]
                /\ b' = [j \in Calls |-> IF j = i \/ Len(b[j]) = Len(new)
                                         THEN new ELSE b[j]]
                /\ l' = [l EXCEPT ![i] = l[i] + 1]
    /\ UNCHANGED <<X, Y, epsilon, L, c, K, a, result, outside>>

\* Line 207, which ends the round.
UpdateB(i) ==
    /\ pc[i] = "update_b"
    /\ LET new == NextB(K[i], a[i])
       IN  IF IsError(new)
           THEN pc' = [pc EXCEPT ![i] = "error"] /\ b' = b /\ l' = l
           ELSE /\ pc' = [pc EXCEPT ![i] = "loop"]
                /\ b' = [b EXCEPT ![i] = new]
                /\ l' = [l EXCEPT ![i] = l[i] + 1]
    /\ UNCHANGED <<X, Y, epsilon, L, c, K, a, result, outside>>

\* Line 209, reached when range(L) is exhausted.
Return(i) ==
    /\ pc[i] = "loop"
    /\ ~(l[i] < L[i])
    /\ LET value == Contract(K[i], c[i], a[i], b[i])
       IN  IF IsError(value)
           THEN pc' = [pc EXCEPT ![i] = "error"] /\ result' = result
           ELSE pc' = [pc EXCEPT ![i] = "done"] /\ result' = [result EXCEPT ![i] = value]
    /\ UNCHANGED <<X, Y, epsilon, L, l, c, K, a, b, outside>>

Next ==
    \/ \E i \in Calls : Setup(i)
    \/ \E i \in Calls : UpdateA(i)
    \/ \E i \in Calls : UpdateB(i)
    \/ \E i \in Calls : Return(i)

Spec == Init /\ [][Next]_vars

PairSpec == PairInit /\ [][Next]_vars

\* One call with at least one round, whatever line 203 gives a.
AnyAInit == Init /\ L[1] >= 1

AnyANext ==
    \/ \E i \in Calls : SetupAnyA(i)
    \/ \E i \in Calls : UpdateA(i)
    \/ \E i \in Calls : UpdateB(i)
    \/ \E i \in Calls : Return(i)

AnyASpec == AnyAInit /\ [][AnyANext]_vars

\* The data batches and generated sets the objective is evaluated on: the
\* training loop feeds as many latent points as data points.
BatchPointSets ==
    {<<<<0, 0>>, <<1, 0>>>>, <<<<1, 0>>, <<0, 0>>>>, <<<<1, 0>>, <<10, 0>>>>}

\* Line 237: the three calls the objective makes, on (X, G), (X, X), (G, G),
\* each with the default epsilon and L.
LossInit ==
    \E x \in BatchPointSets, g \in BatchPointSets :
        /\ X = <<x, x, g>>
        /\ Y = <<g, x, g>>
        /\ epsilon = [i \in 1..3 |-> Half]
        /\ L = [i \in 1..3 |-> DefaultL]
        /\ pc = [i \in 1..3 |-> "entry"]
        /\ l = [i \in 1..3 |-> 0]
        /\ c = [i \in 1..3 |-> Unset]
        /\ K = [i \in 1..3 |-> Unset]
        /\ a = [i \in 1..3 |-> Unset]
        /\ b = [i \in 1..3 |-> Unset]
        /\ result = [i \in 1..3 |-> Unset]
        /\ loss = Unset
        /\ TrainIdle /\ ShuffleIdle

\* Line 237, once the three calls have returned.
Loss ==
    /\ loss = Unset
    /\ \A i \in Calls : pc[i] = "done"
    /\ loss' = Objective(result[1], result[2], result[3])
    /\ UNCHANGED <<frames, trainVars, shufVars>>

LossNext ==
    \/ \E i \in Calls : Setup(i)
    \/ \E i \in Calls : UpdateA(i)
    \/ \E i \in Calls : UpdateB(i)
    \/ \E i \in Calls : Return(i)
    \/ Loss

LossSpec == LossInit /\ [][LossNext]_vars


---------------------------------------------------------------------------
(* Arrays of rows, indexed from 0 as numpy indexes them.                   *)

\* a.shape[0]
Size(arr) == Cardinality(DOMAIN arr)

\* np.vstack([A, B])
VStack(A, B) ==
    [k \in 0..(Size(A) + Size(B) - 1) |->
        IF k < Size(A) THEN A[k] ELSE B[k - Size(A)]]

\* arr[p] for an index array p
Take(arr, p_) == [k \in DOMAIN p_ |-> arr[p_[k]]]

\* The indices the slice [lo:hi] reads of an array of n rows.
SliceRows(n, lo, hi) == {r \in 0..(n - 1) : lo <= r /\ r < hi}

---------------------------------------------------------------------------
(* shuffle_in_unison_inplace, lines 76-79.                                 *)

\* Largest number of rows of an argument of shuffle_in_unison_inplace.
MaxRows == 3

RowValues == {"r", "s"}
LabelValues == {0, 1}

ArraysOf(V, n) == [0..(n - 1) -> V]

ShuffleInit ==
    /\ NoCalls /\ TrainIdle
    /\ \E n \in 0..MaxRows : shuf_a \in ArraysOf(RowValues, n)
    /\ \E n \in 0..MaxRows : shuf_b \in ArraysOf(LabelValues, n)
    /\ perm = <<>>
    /\ shuf_pc = "assert"
    /\ shuffled = <<>>

\* Line 77: assert a.shape[0] == b.shape[0]
ShuffleAssert ==
    /\ shuf_pc = "assert"
    /\ shuf_pc' = IF Size(shuf_a) = Size(shuf_b) THEN "permute"
                  ELSE "AssertionError"
    /\ UNCHANGED <<shuf_a, shuf_b, perm, shuffled, frames, loss, trainVars>>

\* Line 78: p = np.random.permutation(a.shape[0])
ShufflePermute ==
    /\ shuf_pc = "permute"
    /\ perm' \in Permutations(0..(Size(shuf_a) - 1))
    /\ shuf_pc' = "return"
    /\ UNCHANGED <<shuf_a, shuf_b, shuffled, frames, loss, trainVars>>

\* Mutant of ShuffleReturn: the labels are returned in their old order.
ShuffleReturnDataOnly ==
    /\ shuf_pc = "return"
    /\ shuffled' = <<Take(shuf_a, perm), shuf_b>>
    /\ shuf_pc' = "returned"
    /\ UNCHANGED <<shuf_a, shuf_b, perm, frames, loss, trainVars>>

\* Line 79: return a[p], b[p]
ShuffleReturn ==
    /\ shuf_pc = "return"
    /\ shuffled' = <<Take(shuf_a, perm), Take(shuf_b, perm)>>
    /\ shuf_pc' = "returned"
    /\ UNCHANGED <<shuf_a, shuf_b, perm, frames, loss, trainVars>>

ShuffleNext ==
    \/ ShuffleAssert
    \/ ShufflePermute
    \/ ShuffleReturn

ShuffleSpec == ShuffleInit /\ [][ShuffleNext]_vars

---------------------------------------------------------------------------
(* One discriminator pass of the MNIST training loop, lines 442-458.       *)

\* Largest number N of real rows, and largest batch_size.
MaxN == 2
MaxBatch == 3

\* Mutant of n_batches: the batches counted over the combined set.
NBatchesOverCombined == (2 * N) \div batch_size

\* Line 430: n_batches = N/batch_size, on integers
n_batches == N \div batch_size

X_true == [k \in 0..(N - 1) |-> <<"true", k>>]
genSamples == [k \in 0..(N - 1) |-> <<"gen", k>>]
\* Lines 419-421: N ones above N zeros
Y_concat == [k \in 0..(2 * N - 1) |-> IF k < N THEN 1 ELSE 0]

DiscrimInit ==
    /\ NoCalls /\ ShuffleIdle
    /\ N \in 1..MaxN
    /\ batch_size \in 1..MaxBatch
    /\ epoch_idx = 0 /\ idx = 0 /\ batch_idx = 0
    /\ at = "stack"
    /\ fed = <<>> /\ plots = {}
    /\ train_X = <<>> /\ train_Y = <<>>

\* Line 448 and the call of line 449.
Stack ==
    /\ at = "stack"
    /\ train_X' = VStack(X_true, genSamples)
    /\ shuf_a' = VStack(X_true, genSamples)
    /\ shuf_b' = Y_concat
    /\ shuf_pc' = "assert"
    /\ at' = "shuffle"
    /\ UNCHANGED <<N, batch_size, epoch_idx, idx, batch_idx, fed, plots, train_Y,
                   perm, shuffled, frames, loss>>

\* Line 449: train_X, train_Y = the pair returned; line 452.
Unpack ==
    /\ at = "shuffle"
    /\ shuf_pc = "returned"
    /\ train_X' = shuffled[1]
    /\ train_Y' = shuffled[2]
    /\ batch_idx' = 0
    /\ fed' = <<>>
    /\ at' = "batches"
    /\ UNCHANGED <<N, batch_size, epoch_idx, idx, plots, shufVars, frames, loss>>

\* Lines 453-457: one session.run on the slice of batch_idx.
DiscrimBatch ==
    /\ at = "batches"
    /\ batch_idx < n_batches
    /\ fed' = Append(fed, SliceRows(Size(train_X), batch_idx * batch_size,
                                    (batch_idx + 1) * batch_size))
    /\ batch_idx' = batch_idx + 1
    /\ UNCHANGED <<N, batch_size, epoch_idx, idx, at, plots, train_X, train_Y,
                   shufVars, frames, loss>>

\* Line 458, after the last batch: epoch_discrim_error/n_batches.
DiscrimEndPass ==
    /\ at = "batches"
    /\ batch_idx >= n_batches
    /\ at' = IF n_batches = 0 THEN "ZeroDivisionError" ELSE "passed"
    /\ UNCHANGED <<N, batch_size, epoch_idx, idx, batch_idx, fed, plots,
                   train_X, train_Y, shufVars, frames, loss>>

DiscrimNext ==
    \/ Stack
    \/ ShuffleAssert
    \/ ShufflePermute
    \/ ShuffleReturn
    \/ Unpack
    \/ DiscrimBatch
    \/ DiscrimEndPass

DiscrimSpec == DiscrimInit /\ [][DiscrimNext]_vars

---------------------------------------------------------------------------
(* The 2-D training loop, lines 289-306.                                   *)

\* N = 500 and batch_size = 100 of the 2-D experiment.
DataRows == 500
DataBatch == 100

\* Largest N and batch_size tried besides these.
MaxTrainRows == 5
MaxTrainBatch == 3

\* n_epochs, 350 in the notebook: the epochs the model follows.
MaxEpochs == 6
n_epochs == MaxEpochs

TrainSizes ==
    {<<DataRows, DataBatch>>} \cup ((1..MaxTrainRows) \X (1..MaxTrainBatch))

TrainInit ==
    /\ NoCalls /\ ShuffleIdle
    /\ \E nb \in TrainSizes : N = nb[1] /\ batch_size = nb[2]
    /\ epoch_idx = 0 /\ idx = 0 /\ batch_idx = 0
    /\ at = "update"
    /\ fed = <<>> /\ plots = {}
    /\ train_X = <<>> /\ train_Y = <<>>

\* Mutant of TrainUpdate: the batch starts at row idx.
TrainUpdateSliding ==
    /\ at = "update"
    /\ idx < N \div batch_size
    /\ fed' = Append(fed, SliceRows(N, idx, idx + batch_size))
    /\ idx' = idx + 1
    /\ UNCHANGED <<N, batch_size, epoch_idx, batch_idx, at, plots, train_X,
                   train_Y, shufVars, frames, loss>>

\* Lines 294-302: one generator update on X_train[idx*batch_size:(idx+1)*batch_size].
TrainUpdate ==
    /\ at = "update"
    /\ idx < N \div batch_size
    /\ fed' = Append(fed, SliceRows(N, idx * batch_size, (idx + 1) * batch_size))
    /\ idx' = idx + 1
    /\ UNCHANGED <<N, batch_size, epoch_idx, batch_idx, at, plots, train_X,
                   train_Y, shufVars, frames, loss>>

\* Line 294, xrange(N/batch_size) exhausted.
TrainEndUpdates ==
    /\ at = "update"
    /\ idx >= N \div batch_size
    /\ at' = "visualize"
    /\ UNCHANGED <<N, batch_size, epoch_idx, idx, batch_idx, fed, plots, train_X,
                   train_Y, shufVars, frames, loss>>

\* Lines 305-306, then line 289 for the next epoch.
Visualize ==
    /\ at = "visualize"
    /\ plots' = IF epoch_idx % 5 = 0 THEN plots \cup {epoch_idx} ELSE plots
    /\ IF epoch_idx + 1 < n_epochs
       THEN /\ epoch_idx' = epoch_idx + 1
            /\ idx' = 0
            /\ fed' = <<>>
            /\ at' = "update"
       ELSE /\ at' = "finished"
            /\ UNCHANGED <<epoch_idx, idx, fed>>
    /\ UNCHANGED <<N, batch_size, batch_idx, train_X, train_Y, shufVars, frames,
                   loss>>

TrainNext ==
    \/ TrainUpdate
    \/ TrainEndUpdates
    \/ Visualize

TrainSpec == TrainInit /\ [][TrainNext]_vars

---------------------------------------------------------------------------
(* Vocabulary of the properties.                                           *)

m_(i) == Len(X[i])
n_(i) == Len(Y[i])

Started(i) == pc[i] # "entry"
Returned(i) == pc[i] = "done"
Raised(i) == pc[i] = "error"
Running(i) == pc[i] \in {"entry", "loop", "update_b"}

\* A number >= 0: any float but NaN (no float of the routine has a sign).
NonNegative(x) == IsFloat(x) /\ ~IsNaN(x)
StrictlyPositive(x) == NonNegative(x) /\ ~IsZero(x)

AllEntries(M, P(_)) == \A r \in 1..Len(M) : \A k \in 1..Len(M[r]) : P(M[r][k])

IsColumn(v, len) == Len(v) = len /\ \A r \in 1..len : Len(v[r]) = 1

AllOnes(v) == AllEntries(v, LAMBDA x : x = One)

---------------------------------------------------------------------------
(* C1: a call performs exactly L rounds and then returns: it never leaves  *)
(* the loop early, never runs more than L rounds, and always terminates    *)
(* with a returned value.                                                  *)

\* C1 as claimed: no call ever holds more than L completed rounds, and a call
\* that is over has returned (not raised) after exactly L rounds.
C1_ExactlyLRoundsThenReturns ==
    \A i \in Calls :
        /\ l[i] <= L[i]
        /\ ~Running(i) => Returned(i) /\ l[i] = L[i]

\* What does hold of the round count: every call that is over, returned or
\* raised, completed exactly L rounds.
RoundsExactlyL ==
    \A i \in Calls :
        /\ l[i] <= L[i]
        /\ ~Running(i) => l[i] = L[i]

\* Statements a call has still to run, at most.
StepsLeft(i) ==
    CASE pc[i] = "entry" -> 2 * L[i] + 2
      [] pc[i] = "loop" -> 2 * (L[i] - l[i]) + 1
      [] pc[i] = "update_b" -> 2 * (L[i] - l[i])
      [] OTHER -> 0

\* Every step of a call lowers its StepsLeft, so no call runs for ever.
EveryStepCountsDown ==
    [][\A i \in Calls : pc'[i] # pc[i] => StepsLeft(i)' < StepsLeft(i)]_vars


---------------------------------------------------------------------------
(* The scaling steps as the specification states them, entry by entry.     *)

\* sum over k = 1..upto of K[i][k] * v[k]
RECURSIVE RowSum(_, _, _, _)
RowSum(K_, v, i, upto) ==
    IF upto = 1 THEN FMul(K_[i][1], v[1][1])
    ELSE FAdd(RowSum(K_, v, i, upto - 1), FMul(K_[i][upto], v[upto][1]))

\* sum over k = 1..upto of K[k][j] * u[k]
RECURSIVE ColSum(_, _, _, _)
ColSum(K_, u, j, upto) ==
    IF upto = 1 THEN FMul(K_[1][j], u[1][1])
    ELSE FAdd(ColSum(K_, u, j, upto - 1), FMul(K_[upto][j], u[upto][1]))

\* Step 4a: u[i] = 1 / (sum_j K[i][j] * v[j] + delta) for every row i.
StepU(K_, v) ==
    [i \in 1..Rows(K_) |-> <<FDiv(One, FAdd(RowSum(K_, v, i, Cols(K_)), Delta))>>]

\* Step 4b: v[j] = 1 / (sum_i K[i][j] * u[i] + delta) for every column j.
StepV(K_, u) ==
    [j \in 1..Cols(K_) |-> <<FDiv(One, FAdd(ColSum(K_, u, j, Rows(K_)), Delta))>>]

(* C2: within a round the new u is computed first, from the v the previous *)
(* round left (all ones in round 1), and the new v second, from the u just *)
(* computed.  Between the two steps u is step 4a of the current v, and at  *)
(* the end of every round v is step 4b of the current u.                   *)
C2_UThenVWithinRound ==
    \A i \in Calls :
        /\ pc[i] = "update_b" => a[i] = StepU(K[i], b[i])
        /\ pc[i] = "update_b" /\ l[i] = 0 => IsColumn(b[i], n_(i)) /\ AllOnes(b[i])
        /\ Started(i) /\ pc[i] # "update_b" /\ l[i] >= 1 => b[i] = StepV(K[i], a[i])

\* Two rounds done on sets of different sizes, the second round having
\* changed v.
C2_Witness ==
    \E i \in Calls :
        /\ pc[i] = "loop" /\ l[i] = 2 /\ m_(i) # n_(i)
        /\ ~AllOnes(b[i]) /\ b[i] # StepV(K[i], StepU(K[i], Ones(n_(i))))

---------------------------------------------------------------------------
\* sum over j = 1..upto of (K[i][j] * C[i][j]) * v[j]
RECURSIVE InnerSum(_, _, _, _, _)
InnerSum(K_, c_, v, i, upto) ==
    IF upto = 1 THEN FMul(FMul(K_[i][1], c_[i][1]), v[1][1])
    ELSE FAdd(InnerSum(K_, c_, v, i, upto - 1),
              FMul(FMul(K_[i][upto], c_[i][upto]), v[upto][1]))

\* sum over i = 1..upto of (sum over j of (K[i][j] * C[i][j]) * v[j]) * u[i]:
\* the double sum, contracted against v first and against u second.
RECURSIVE DoubleSum(_, _, _, _, _)
DoubleSum(K_, c_, u, v, upto) ==
    IF upto = 1 THEN FMul(InnerSum(K_, c_, v, 1, Cols(K_)), u[1][1])
    ELSE FAdd(DoubleSum(K_, c_, u, v, upto - 1),
              FMul(InnerSum(K_, c_, v, upto, Cols(K_)), u[upto][1]))

(* C3: the value returned is a single number, of shape 1x1, equal to the   *)
(* sum over i in 1..m and j in 1..n of K[i][j]*C[i][j]*v[j]*u[i], with the *)
(* u and v the last of the L rounds left.                                  *)
C3_ReturnsDoubleSum ==
    \A i \in Calls :
        Returned(i) =>
            /\ Len(result[i]) = 1 /\ Len(result[i][1]) = 1
            /\ l[i] = L[i]
            /\ result[i][1][1] = DoubleSum(K[i], c[i], a[i], b[i], m_(i))

\* A returned non-zero cost of two sets of different sizes after two rounds.
C3_Witness ==
    \E i \in Calls :
        /\ Returned(i) /\ l[i] = 2 /\ m_(i) = 2 /\ n_(i) = 1
        /\ ~IsZero(result[i][1][1])

---------------------------------------------------------------------------
(* C4: in every state of a call from initialisation on, u has length m and *)
(* v has length n, and both are all ones before the first round, for all   *)
(* m, n >= 1.                                                              *)
C4_VectorLengths ==
    \A i \in Calls :
        Started(i) =>
            /\ IsColumn(a[i], m_(i))
            /\ IsColumn(b[i], n_(i))
            /\ (pc[i] = "loop" /\ l[i] = 0 => AllOnes(a[i]) /\ AllOnes(b[i]))

---------------------------------------------------------------------------
(* C5: both vectors start with n entries, and for m # n the call hits a    *)
(* dimension mismatch in some matrix product, while for m = n it never     *)
(* does.                                                                   *)

\* C5 as claimed: a call that returned had m = n, a call that raised m # n.
C5_MismatchWheneverSizesDiffer ==
    \A i \in Calls :
        /\ Returned(i) => m_(i) = n_(i)
        /\ Raised(i) => m_(i) # n_(i)

\* C5 as it holds: both vectors start with n entries; a product is
\* mismatched only for m # n with L = 0, and then it is the final
\* contraction; every call with m = n or L >= 1 returns.
C5_MismatchOnlyWithoutRounds ==
    \A i \in Calls :
        /\ pc[i] = "loop" /\ l[i] = 0 => IsColumn(a[i], n_(i)) /\ IsColumn(b[i], n_(i))
        /\ Raised(i) <=> (~Running(i) /\ m_(i) # n_(i) /\ L[i] = 0)
        /\ Returned(i) <=> (~Running(i) /\ (m_(i) = n_(i) \/ L[i] >= 1))
        /\ Raised(i) => l[i] = 0 /\ IsError(Contract(K[i], c[i], a[i], b[i]))

\* A call on sets of different sizes that returned.
C5_Witness ==
    \E i \in Calls : Returned(i) /\ m_(i) # n_(i) /\ L[i] >= 1

\* A call on sets of different sizes that raised.
C5_RaisedWitness ==
    \E i \in Calls : Raised(i) /\ m_(i) # n_(i) /\ L[i] = 0

---------------------------------------------------------------------------
\* sum over j = 1..upto of K[i][j] * C[i][j]
RECURSIVE PlainInner(_, _, _, _)
PlainInner(K_, c_, i, upto) ==
    IF upto = 1 THEN FMul(K_[i][1], c_[i][1])
    ELSE FAdd(PlainInner(K_, c_, i, upto - 1), FMul(K_[i][upto], c_[i][upto]))

\* sum over i = 1..upto and all j of K[i][j] * C[i][j]
RECURSIVE PlainSum(_, _, _)
PlainSum(K_, c_, upto) ==
    IF upto = 1 THEN PlainInner(K_, c_, 1, Cols(K_))
    ELSE FAdd(PlainSum(K_, c_, upto - 1), PlainInner(K_, c_, upto, Cols(K_)))

(* C6: with L = 0 the call is not rejected: it runs no round and returns   *)
(* the sum over i, j of K[i][j]*C[i][j], the cost under all-ones vectors.  *)
C6_ZeroRoundsReturnsPlainCost ==
    \A i \in Calls :
        L[i] = 0 /\ ~Running(i) =>
            /\ Returned(i)
            /\ l[i] = 0
            /\ result[i] = <<<<PlainSum(K[i], c[i], m_(i))>>>>


---------------------------------------------------------------------------
(* C7: the returned scalar is >= 0, because after every round every entry  *)
(* of u and of v is strictly positive and every entry of C and of K is     *)
(* non-negative.                                                           *)
C7_ResultNonNegative ==
    \A i \in Calls :
        /\ Started(i) =>
            /\ AllEntries(c[i], NonNegative) /\ AllEntries(K[i], NonNegative)
            /\ AllEntries(a[i], StrictlyPositive) /\ AllEntries(b[i], StrictlyPositive)
        /\ Returned(i) => NonNegative(result[i][1][1])

\* A returned positive cost after two rounds on a kernel with a zero entry.
C7_Witness ==
    \E i \in Calls :
        /\ Returned(i) /\ l[i] = 2
        /\ StrictlyPositive(result[i][1][1])
        /\ \E r \in 1..m_(i) : \E k \in 1..n_(i) : IsZero(K[i][r][k])

---------------------------------------------------------------------------
ZeroRow(K_, r) == \A k \in 1..Cols(K_) : IsZero(K_[r][k])
ZeroCol(K_, k) == \A r \in 1..Rows(K_) : IsZero(K_[r][k])

(* C8: the floor delta is added to the row or column sum before the        *)
(* inversion, so every denominator of steps 4a and 4b is >= delta > 0, no  *)
(* division by zero occurs even when a kernel row or column is zero, and   *)
(* every entry of u and v stays finite, at most 1/delta.                   *)
C8_FloorKeepsVectorsFinite ==
    \A i \in Calls :
        /\ StrictlyPositive(Delta)
        /\ pc[i] = "loop" /\ l[i] < L[i] =>
              \A r \in 1..m_(i) :
                  FLeq(Delta, FAdd(RowSum(K[i], b[i], r, n_(i)), Delta))
        /\ pc[i] = "update_b" =>
              \A k \in 1..n_(i) :
                  FLeq(Delta, FAdd(ColSum(K[i], a[i], k, m_(i)), Delta))
        /\ Started(i) =>
              /\ AllEntries(a[i], LAMBDA x : IsFinite(x) /\ FLeq(x, FDiv(One, Delta)))
              /\ AllEntries(b[i], LAMBDA x : IsFinite(x) /\ FLeq(x, FDiv(One, Delta)))

\* A kernel with a zero row and a zero column, whose entries of u and v have
\* reached 1/delta.
C8_Witness ==
    \E i \in Calls :
        /\ pc[i] = "loop" /\ l[i] >= 1
        /\ \E r \in 1..m_(i) : ZeroRow(K[i], r) /\ a[i][r][1] = FDiv(One, Delta)
        /\ \E k \in 1..n_(i) : ZeroCol(K[i], k) /\ b[i][k][1] = FDiv(One, Delta)


---------------------------------------------------------------------------
SameArguments(i, j) ==
    X[i] = X[j] /\ Y[i] = Y[j] /\ epsilon[i] = epsilon[j] /\ L[i] = L[j]

---------------------------------------------------------------------------
Coincide(i) == \A r \in 1..m_(i) : \A k \in 1..n_(i) : X[i][r] = Y[i][k]

(* C10: when every point of A coincides with every point of B, C is all    *)
(* zeros, K is all ones and the result is 0 for every L; with one point a  *)
(* side, u = v = 1/(1*1 + 1e-12) after the rounds.                         *)
C10_CoincidentPoints ==
    \A i \in Calls :
        Started(i) /\ Coincide(i) =>
            /\ AllEntries(c[i], IsZero)
            /\ AllEntries(K[i], LAMBDA x : x = One)
            /\ Returned(i) => result[i] = <<<<Zero>>>>
            /\ m_(i) = 1 /\ n_(i) = 1 /\ l[i] >= 1 /\ pc[i] # "update_b" =>
                  /\ a[i] = <<<<FDiv(One, FAdd(FMul(One, One), Delta))>>>>
                  /\ b[i] = a[i]

\* Scenario 1 with two rounds: A = [[0,0]], B = [[0,0]], epsilon = 0.5.
C10_Witness ==
    \E i \in Calls :
        /\ X[i] = <<<<0, 0>>>> /\ Y[i] = <<<<0, 0>>>> /\ epsilon[i] = Half
        /\ Returned(i) /\ l[i] = 2 /\ result[i] = <<<<Zero>>>>


---------------------------------------------------------------------------
\* The locals and the result of call i.
Frame(i) == <<pc[i], l[i], c[i], K[i], a[i], b[i], result[i]>>

(* C11: a call has no effect outside its own frame: it leaves X, Y,        *)
(* epsilon and L as they were and touches the frame of no other call, so   *)
(* under every interleaving of several calls each call ends as it does     *)
(* when run alone, with the same scalar.                                   *)
C11_CallsIndependent ==
    /\ [](\A i \in Calls :
             /\ Returned(i) =>
                   result[i] = SinkhornLoss(X[i], Y[i], epsilon[i], L[i])
             /\ Raised(i) =>
                   IsError(SinkhornLoss(X[i], Y[i], epsilon[i], L[i])))
    /\ [][/\ X' = X /\ Y' = Y /\ epsilon' = epsilon /\ L' = L
          /\ \A i \in Calls : pc'[i] = pc[i] => Frame(i)' = Frame(i)]_vars

\* Two calls with different arguments and vectors b of one length, both
\* returned after two rounds, with different non-zero costs.
C11_Witness ==
    \E i \in Calls : \E j \in Calls :
        /\ i # j /\ Returned(i) /\ Returned(j)
        /\ l[i] = 2 /\ l[j] = 2
        /\ ~IsZero(result[i][1][1]) /\ ~IsZero(result[j][1][1])
        /\ result[i] # result[j]
        /\ Len(b[i]) = Len(b[j])


---------------------------------------------------------------------------
\* The least integer x for which the float exp(-x) is zero.
ExpUnderflow == 104

(* C12: every entry of K = exp(-C/epsilon) lies in (0, 1] and is never     *)
(* exactly zero, and no round modifies K.                                  *)

\* C12 as claimed.
C12_KernelStrictlyPositive ==
    /\ [](\A i \in Calls :
             Started(i) =>
                 AllEntries(K[i], LAMBDA x : StrictlyPositive(x) /\ FLeq(x, One)))
    /\ [][\A i \in Calls : Started(i) => K'[i] = K[i]]_vars

\* C12 as it holds: every entry of K lies in [0, 1]; it is zero, by
\* underflow, exactly when C[i][j]/epsilon reaches ExpUnderflow and positive
\* otherwise; no round modifies K.
C12_KernelInUnitInterval ==
    /\ [](\A i \in Calls :
             Started(i) =>
                 \A r \in 1..m_(i) : \A k \in 1..n_(i) :
                     /\ NonNegative(K[i][r][k]) /\ FLeq(K[i][r][k], One)
                     /\ IsZero(K[i][r][k]) <=>
                            FLeq(IntToFloat(ExpUnderflow), FDiv(c[i][r][k], epsilon[i])))
    /\ [][\A i \in Calls : Started(i) => K'[i] = K[i]]_vars

\* After a round, a kernel with an entry that underflowed to zero beside an
\* entry strictly between 0 and 1.
C12_Witness ==
    \E i \in Calls :
        /\ pc[i] = "loop" /\ l[i] >= 1
        /\ \E r \in 1..m_(i) : \E k \in 1..n_(i) : IsZero(K[i][r][k])
        /\ \E r \in 1..m_(i) : \E k \in 1..n_(i) :
               StrictlyPositive(K[i][r][k]) /\ K[i][r][k] # One


---------------------------------------------------------------------------
(* C13: with L >= 1 the initial value of a is overwritten in round 1       *)
(* before it is read, so the result does not depend on how a was           *)
(* initialised, and from the end of round 1 on a has length m and b has    *)
(* length n, for all m, n >= 1.                                            *)
C13_InitialAIsDead ==
    \A i \in Calls :
        L[i] >= 1 =>
            /\ ~Raised(i)
            /\ Started(i) /\ (l[i] >= 1 \/ pc[i] = "update_b") =>
                  /\ IsColumn(a[i], m_(i)) /\ IsColumn(b[i], n_(i))
                  /\ pc[i] = "update_b" /\ l[i] = 0 =>
                        a[i] = Stored(NextA(K[i], Ones(n_(i))))
            /\ Returned(i) => result[i] = SinkhornLoss(X[i], Y[i], epsilon[i], L[i])

\* A call on sets of different sizes returned a non-zero cost after two
\* rounds, holding an a of length m that is none of the values a can start as.
C13_Witness ==
    \E i \in Calls :
        /\ Returned(i) /\ m_(i) # n_(i) /\ L[i] = 2
        /\ ~IsZero(result[i][1][1])
        /\ IsColumn(a[i], m_(i))
        /\ a[i] \notin InitialAs(i)


---------------------------------------------------------------------------
(* C14: the training objective is 2*sinkhorn_loss(X, G) -                  *)
(* sinkhorn_loss(X, X) - sinkhorn_loss(G, G), all three with the default   *)
(* epsilon = 0.5 and L = 10; when G equals X (same points, same order) the *)
(* loss is exactly 0.                                                      *)
C14_Objective ==
    /\ \A i \in Calls : epsilon[i] = Half /\ L[i] = 10
    /\ loss # Unset =>
          /\ loss = SSub(SSub(Plus(FMul(IntToFloat(2),
                                        SinkhornLoss(X[1], Y[1], Half, 10)[1][1])),
                              Plus(SinkhornLoss(X[1], X[1], Half, 10)[1][1])),
                         Plus(SinkhornLoss(Y[1], Y[1], Half, 10)[1][1]))
          /\ Y[1] = X[1] => IsZero(loss[2])

\* The objective was evaluated for G = X, two points a unit apart: the three
\* calls returned one non-zero cost and the loss is zero.
C14_Witness ==
    /\ loss # Unset
    /\ Y[1] = X[1] /\ Len(X[1]) = 2
    /\ ~IsZero(result[1][1][1])
    /\ result[2] = result[1] /\ result[3] = result[1]
    /\ IsZero(loss[2])

\* The objective was evaluated for a G that differs from X and is not zero.
C14_NonZeroWitness ==
    /\ loss # Unset
    /\ Y[1] # X[1]
    /\ ~IsZero(loss[2])


---------------------------------------------------------------------------
(* C15: in each discriminator pass of the MNIST loop the batch loop runs   *)
(* n_batches = N/batch_size (integer division) times over the shuffled     *)
(* 2N rows, batch k reading rows [k*batch_size, (k+1)*batch_size): every   *)
(* row read has index < n_batches*batch_size <= N and is read at most      *)
(* once, so at least N of the 2N rows are not used in that pass.           *)

\* The rows of the combined set the batches fed so far have read.
RowsRead == UNION {fed[k] : k \in 1..Len(fed)}

C15_BatchesWithinFirstN ==
    at \in {"batches", "passed", "ZeroDivisionError"} =>
        /\ Size(train_X) = 2 * N /\ Size(train_Y) = 2 * N
        /\ Len(fed) = batch_idx /\ batch_idx <= N \div batch_size
        /\ at # "batches" => Len(fed) = N \div batch_size
        /\ \A k \in 1..Len(fed) :
              /\ fed[k] = {r \in 0..(2 * N - 1) :
                              (k - 1) * batch_size <= r /\ r < k * batch_size}
              /\ \A r \in fed[k] : r < (N \div batch_size) * batch_size
        /\ (N \div batch_size) * batch_size <= N
        /\ \A j, k \in 1..Len(fed) : j # k => fed[j] \cap fed[k] = {}
        /\ Cardinality((0..(2 * N - 1)) \ RowsRead) >= N

\* A pass over two real and two generated rows ended after two batches of one
\* row: the rows were shuffled out of their stacked order, rows 0 and 1 were
\* read and two rows were not.
C15_Witness ==
    /\ at = "passed"
    /\ N = 2 /\ batch_size = 1
    /\ train_X # VStack(X_true, genSamples)
    /\ RowsRead = {0, 1}
    /\ Cardinality((0..3) \ RowsRead) = 2

---------------------------------------------------------------------------
(* C16: in every epoch of the 2-D training loop exactly N/batch_size       *)
(* generator updates run in increasing idx order, update idx reading rows  *)
(* [idx*batch_size, (idx+1)*batch_size) of X_train: the batches of one     *)
(* epoch are pairwise disjoint and, with N = 500 and batch_size = 100,     *)
(* cover every training row exactly once; the progress plot runs after the *)
(* updates of an epoch and only in epochs with epoch_idx % 5 == 0.         *)
C16_EpochBatchesThenPlot ==
    /\ [](/\ Len(fed) = idx /\ idx <= N \div batch_size
          /\ at # "update" => Len(fed) = N \div batch_size
          /\ \A k \in 1..Len(fed) :
                fed[k] = {r \in 0..(N - 1) :
                             (k - 1) * batch_size <= r /\ r < k * batch_size}
          /\ \A j, k \in 1..Len(fed) : j # k => fed[j] \cap fed[k] = {}
          /\ N = 500 /\ batch_size = 100 /\ at # "update" =>
                \A r \in 0..(N - 1) :
                    Cardinality({k \in 1..Len(fed) : r \in fed[k]}) = 1
          /\ \A e \in plots : e % 5 = 0 /\ e <= epoch_idx)
    /\ [][/\ idx' # idx =>
                \/ idx' = idx + 1 /\ epoch_idx' = epoch_idx
                \/ idx' = 0 /\ epoch_idx' = epoch_idx + 1
          /\ epoch_idx' # epoch_idx => Len(fed) = N \div batch_size
          /\ plots' # plots =>
                /\ at = "visualize"
                /\ Len(fed) = N \div batch_size
                /\ epoch_idx % 5 = 0
                /\ plots' = plots \cup {epoch_idx}]_vars

\* With N = 500 and batch_size = 100 the plot has run in epochs 0 and 5, and
\* the five updates of the current epoch have read every row.
C16_Witness ==
    /\ N = 500 /\ batch_size = 100
    /\ plots = {0, 5}
    /\ Len(fed) = 5
    /\ RowsRead = 0..499

---------------------------------------------------------------------------
(* C17: shuffle_in_unison_inplace(a, b) applies one permutation p of the   *)
(* row indices to both arguments: output position k holds (a[p[k]],        *)
(* b[p[k]]), so every (data row, label row) pair of the input appears      *)
(* exactly once in the output and no pair is split; when a and b have      *)
(* different numbers of rows the assertion fails and nothing is returned.  *)

\* The positions at which the arrays A and B hold the pair v.
PairsAt(A, B, v) == {k \in DOMAIN A : <<A[k], B[k]>> = v}

C17_ShuffledInUnison ==
    /\ shuf_pc = "returned" =>
          /\ Size(shuf_a) = Size(shuf_b)
          /\ DOMAIN perm = DOMAIN shuf_a
          /\ \A k \in DOMAIN perm : perm[k] \in DOMAIN shuf_a
          /\ \A j, k \in DOMAIN perm : j # k => perm[j] # perm[k]
          /\ DOMAIN shuffled[1] = DOMAIN shuf_a
          /\ DOMAIN shuffled[2] = DOMAIN shuf_a
          /\ \A k \in DOMAIN shuf_a :
                /\ shuffled[1][k] = shuf_a[perm[k]]
                /\ shuffled[2][k] = shuf_b[perm[k]]
          /\ \A k \in DOMAIN shuf_a :
                LET v == <<shuf_a[k], shuf_b[k]>>
                IN  Cardinality(PairsAt(shuffled[1], shuffled[2], v))
                        = Cardinality(PairsAt(shuf_a, shuf_b, v))
    /\ Size(shuf_a) # Size(shuf_b) =>
          /\ shuf_pc \in {"assert", "AssertionError"}
          /\ shuffled = <<>>
    /\ shuf_pc = "AssertionError" => Size(shuf_a) # Size(shuf_b)

\* Three rows with differing data and labels came back in another order.
C17_Witness ==
    /\ shuf_pc = "returned"
    /\ Size(shuf_a) = 3
    /\ shuf_a[0] # shuf_a[1] /\ shuf_b[1] # shuf_b[2]
    /\ shuffled[1] # shuf_a /\ shuffled[2] # shuf_b

\* The assertion failed on arguments of two and three rows.
C17_AssertionWitness ==
    /\ shuf_pc = "AssertionError"
    /\ Size(shuf_a) = 2 /\ Size(shuf_b) = 3

=============================================================================
